---- MODULE Spec2Model ----
(***************************************************************************)
(* MQL5 Architect: the view state of App.tsx with its event handlers, the  *)
(* two request builders of geminiService.ts (generateMql5, chatWithCode),  *)
(* the reply post-processing (cleanJsonOutput) and the PDF text extraction *)
(* loop of pdfHelper.ts.                                                   *)
(*                                                                         *)
(* Text is modelled in two ways.  Where the code inspects characters       *)
(* (trim, startsWith, the two regular expressions of cleanJsonOutput) a    *)
(* string is a sequence of one-character strings.  Where the code only     *)
(* concatenates (template literals, join) a string is a sequence of atoms, *)
(* each atom an opaque piece of text.                                      *)
(***************************************************************************)
EXTENDS Integers, Sequences, FiniteSets, TLC

VARIABLES
    \* ---- App.tsx: useState cells (lines 29-47)
    prompt, codeType, isGenerating, currentCode, explanation, error,
    activeTab, history, chatMessages, chatInput, isChatLoading,
    uploadedFile, pdfContent, isParsingPdf,
    \* ---- environment of the App: the clock read by Date.now(), and the
    \* ---- async handler invocations suspended at their await
    now, genCalls, chatCalls, pdfCalls,
    \* ---- observation: whether the last step was a restore, and of which
    \* ---- item; the number of generateMql5 requests that have succeeded;
    \* ---- whether a handleGenerate invocation keeps, for the claims that
    \* ---- speak of "before the call", the lists it was called with
    event, nGenerated, snapshots,
    \* ---- cleanJsonOutput harness: a reply, its cleaning, the cleaning of that
    reply, cleanPc, cleaned, recleaned,
    \* ---- chatWithCode harness: the chatHistory argument and the prompt built
    chatHistory, outbound,
    \* ---- extractTextFromPdf: the document, the position in the function,
    \* ---- the loop counter, the accumulator, the pages requested, the result
    pdfDoc, pdfPc, pdfI, fullText, visited, pdfResult

appVars == <<prompt, codeType, isGenerating, currentCode, explanation, error,
             activeTab, history, chatMessages, chatInput, isChatLoading,
             uploadedFile, pdfContent, isParsingPdf,
             now, genCalls, chatCalls, pdfCalls, event, nGenerated, snapshots>>
cleanVars == <<reply, cleanPc, cleaned, recleaned>>
ctxVars == <<chatHistory, outbound>>
pdfVars == <<pdfDoc, pdfPc, pdfI, fullText, visited, pdfResult>>
vars == <<appVars, cleanVars, ctxVars, pdfVars>>

\* A value no string, sequence or record of the program equals (null / not yet).
Null == "null"

Min(a, b) == IF a < b THEN a ELSE b
Max(a, b) == IF a > b THEN a ELSE b

(***************************************************************************)
(* Character strings                                                       *)
(***************************************************************************)
\* The back-tick character (written out: the lexer reserves the character).
TICK == "backtick"
\* The characters String.prototype.trim and the class \s both remove.
WhiteSpace == {" ", "\n", "\t"}

IsSpace(c) == c \in WhiteSpace

DropFirst(s, k) == SubSeq(s, k + 1, Len(s))
DropLast(s, k) == SubSeq(s, 1, Len(s) - k)

RECURSIVE TrimStart(_)
TrimStart(s) ==
    IF s # <<>> /\ IsSpace(Head(s)) THEN TrimStart(Tail(s)) ELSE s

RECURSIVE TrimEnd(_)
TrimEnd(s) ==
    IF s # <<>> /\ IsSpace(s[Len(s)]) THEN TrimEnd(DropLast(s, 1)) ELSE s

\* String.prototype.trim
Trim(s) == TrimEnd(TrimStart(s))

\* String.prototype.startsWith
StartsWith(s, p) == Len(s) >= Len(p) /\ SubSeq(s, 1, Len(p)) = p

EndsWith(s, p) == Len(s) >= Len(p) /\ SubSeq(s, Len(s) - Len(p) + 1, Len(s)) = p

Fence == <<TICK, TICK, TICK>>
JsonFence == Fence \o <<"j", "s", "o", "n">>

(***************************************************************************)
(* cleanJsonOutput (geminiService.ts)                                      *)
(***************************************************************************)
\* s.replace(/^<open>\s*/, ""), for an s that starts with <open>: the opening
\* fence and the longest run of white space after it are removed.
StripOpen(s, open) ==
    IF StartsWith(s, open) THEN TrimStart(DropFirst(s, Len(open))) ELSE s

\* StripClose without the \s* of its pattern: only the back-ticks are removed.
StripCloseKeepSpace(s) ==
    IF EndsWith(s, Fence) THEN DropLast(s, Len(Fence)) ELSE s

\* s.replace(/\s*<fence>$/, ""): the leftmost match is the longest run of
\* white space that is followed by the three back-ticks ending the string.
StripClose(s) ==
    IF EndsWith(s, Fence) THEN TrimEnd(DropLast(s, Len(Fence))) ELSE s

cleanJsonOutput(text) ==
    LET cleanText == Trim(text)
    IN  IF StartsWith(cleanText, JsonFence)
        THEN StripClose(StripOpen(cleanText, JsonFence))
        ELSE IF StartsWith(cleanText, Fence)
             THEN StripClose(StripOpen(cleanText, Fence))
             ELSE cleanText

(***************************************************************************)
(* Atom strings: template literals and Array.prototype.join                *)
(***************************************************************************)
RECURSIVE Join(_, _)
\* parts.join(sep), parts a sequence of atom strings
Join(parts, sep) ==
    IF parts = <<>> THEN <<>>
    ELSE IF Len(parts) = 1 THEN parts[1]
    ELSE parts[1] \o <<sep>> \o Join(Tail(parts), sep)

\* s.slice(0, k)
Take(s, k) == SubSeq(s, 1, Min(Len(s), k))

(***************************************************************************)
(* chatWithCode (geminiService.ts): the prompt it sends                    *)
(***************************************************************************)
\* The number of turns kept: the 10 of chatHistory.slice(-10).
ContextWindow == 10
\* documentationContext.slice(0, 100000).  The documents of the model are far
\* shorter, so this cut never removes anything here.
ChatDocLimit == 100000

\* The mutant of SliceLast: slice(0, k), the oldest k turns instead of the newest.
SliceFirst(h, k) == SubSeq(h, 1, Min(Len(h), k))

\* h.slice(-k): from index max(length - k, 0) to the end.
SliceLast(h, k) == SubSeq(h, Max(Len(h) - k, 0) + 1, Len(h))

RoleLabel(role) == IF role = "user" THEN "User" ELSE "Assistant"

\* The template literal of the map callback.
RenderTurn(msg) == <<RoleLabel(msg.role), ": ">> \o msg.content

conversationContext(h) ==
    LET kept == SliceLast(h, ContextWindow)
    IN  Join([i \in 1..Len(kept) |-> RenderTurn(kept[i])], "\n")

\* fullPrompt, as the values that fill the holes of its template; the
\* documentation section is there only for a truthy documentationContext.
ChatPrompt(code, h, userMessage, documentationContext) ==
    [ code          |-> code,
      conversation  |-> conversationContext(h),
      request       |-> userMessage,
      documentation |-> IF documentationContext # <<>>
                        THEN Take(documentationContext, ChatDocLimit)
                        ELSE <<>> ]

(***************************************************************************)
(* generateMql5 (geminiService.ts): the prompt it sends, the result        *)
(***************************************************************************)
\* documentationContext.slice(0, 500000); never reached by the model's documents.
GenDocLimit == 500000

GenPrompt(userPrompt, type, documentationContext) ==
    [ type          |-> type,
      requirement   |-> userPrompt,
      documentation |-> IF documentationContext # <<>>
                        THEN Take(documentationContext, GenDocLimit)
                        ELSE <<>> ]

\* The JSON texts the model's replies carry.  Each stands for one object; any
\* other text is not JSON.
JsonGenA == <<"{", "A", "}">>
JsonChatPlain == <<"{", "r", "}">>
JsonChatEmpty == <<"{", "r", "e", "}">>
JsonChatNull == <<"{", "r", "n", "}">>
JsonChatCode == <<"{", "r", "c", "}">>

CodeA == <<"#property strict", "// A">>
CodeC == <<"#property strict", "// C">>

\* JSON.parse: the object a text denotes, or a SyntaxError.
JsonParse(text) ==
    CASE text = JsonGenA ->
           [ok |-> TRUE, code |-> CodeA, explanation |-> <<"explains A">>]
      [] text = JsonChatPlain ->
           [ok |-> TRUE, reply |-> <<"answer">>, updated |-> "absent", updatedCode |-> <<>>]
      [] text = JsonChatEmpty ->
           [ok |-> TRUE, reply |-> <<"answer">>, updated |-> "string", updatedCode |-> <<>>]
      [] text = JsonChatNull ->
           [ok |-> TRUE, reply |-> <<"answer">>, updated |-> "null", updatedCode |-> <<>>]
      [] text = JsonChatCode ->
           [ok |-> TRUE, reply |-> <<"changed">>, updated |-> "string", updatedCode |-> CodeC]
      [] OTHER ->
           [ok |-> FALSE, message |-> "Unexpected token"]

\* What ai.models.generateContent does with a request: it rejects with an
\* error (whose message may be empty), or resolves with a response whose text
\* may be empty.
Rejected(message) == [kind |-> "rejected", message |-> message, text |-> <<>>]
Resolved(text) == [kind |-> "resolved", message |-> "", text |-> text]

\* The try block shared by generateMql5 and chatWithCode: the parsed reply, or
\* the error rethrown by the catch.
ParsedReply(response) ==
    IF response.kind = "rejected"
    THEN [ok |-> FALSE, message |-> response.message]
    ELSE IF response.text # <<>>
         THEN JsonParse(cleanJsonOutput(response.text))
         ELSE [ok |-> FALSE, message |-> "No response generated"]

generateMql5(response) == ParsedReply(response)

chatWithCode(response) == ParsedReply(response)

(***************************************************************************)
(* extractTextFromPdf (pdfHelper.ts)                                       *)
(***************************************************************************)
PdfErrorMessage ==
    "Failed to extract text from PDF. The file might be corrupted or encrypted."

RECURSIVE Digits(_)
\* Number.prototype.toString of a natural number, in decimal
Digits(n) ==
    LET d == <<"0", "1", "2", "3", "4", "5", "6", "7", "8", "9">>[(n % 10) + 1]
    IN  IF n < 10 THEN <<d>> ELSE Digits(n \div 10) \o <<d>>

\* PageText with join('') in place of join(' ').
PageTextUnspaced(items) == items

\* textContent.items.map(item => item.str).join(' ')
PageText(items) == Join([k \in 1..Len(items) |-> <<items[k]>>], " ")

\* The template literal appended to fullText for page i.
PageBlock(i, items) ==
    <<"\n--- Page ">> \o Digits(i) \o <<" ---\n">> \o PageText(items)

RECURSIVE ExtractedText(_, _)
\* The value of fullText after the loop has run over pages 1..n of a document.
ExtractedText(pages, n) ==
    IF n = 0 THEN <<>>
    ELSE ExtractedText(pages, n - 1) \o PageBlock(n, pages[n])

(***************************************************************************)
(* App.tsx: the values of the view state                                   *)
(***************************************************************************)
\* The initial currentCode; its first piece is the prefix handleChatSubmit tests.
PlaceholderPrefix == "// Your MQL5 code"
Placeholder == <<PlaceholderPrefix, " will appear here...">>
Analyzing == <<"// Analyzing requirements...", "\n// Reading documentation context...",
               "\n// Designing trading logic...", "\n// Generating MQL5 structures...">>
ErrorCode == <<"// Error generating code.">>

GenerateFallback == "Failed to generate code. Please try again."
ParseFallback == "Failed to parse PDF."
NotPdfMessage == "Please upload a valid PDF file."
ChatErrorText == <<"I encountered an error while processing your request. Please try again.">>
RestoredNote == <<"// Restored from history">>

\* Two of the three artifact types the left column offers; no handler tells
\* one type from another.
CodeTypes == {"Expert Advisor", "Indicator"}

\* The files a user may pick: a PDF and a text file.
Files == {"manual.pdf", "notes.txt"}
FileType(f) == IF f = "notes.txt" THEN "text/plain" ELSE "application/pdf"
FilePages(f) == IF f = "manual.pdf" THEN << <<"OrderSend", "docs">> >> ELSE <<>>

AppState ==
    /\ prompt = <<>>
    /\ codeType = "Expert Advisor"
    /\ isGenerating = FALSE
    /\ currentCode = Placeholder
    /\ explanation = <<>>
    /\ error = Null
    /\ activeTab = "chat"
    /\ history = <<>>
    /\ chatMessages = <<>>
    /\ chatInput = <<>>
    /\ isChatLoading = FALSE
    /\ uploadedFile = Null
    /\ pdfContent = <<>>
    /\ isParsingPdf = FALSE
    /\ genCalls = <<>>
    /\ chatCalls = <<>>
    /\ pdfCalls = <<>>
    /\ event = [op |-> "other", arg |-> 0]
    /\ nGenerated = 0

AppInit == AppState /\ snapshots = FALSE

(***************************************************************************)
(* Bounds of the model                                                     *)
(***************************************************************************)
\* The reading of Date.now() when the page is opened, and how far it advances.
Epoch == 9
MaxTicks == 1
\* The most generations kept in history, turns in the conversation, and
\* handleGenerate invocations awaiting their reply at once.
MaxHistory == 2
MaxChat == 3
MaxGenCalls == 1
\* Replies handed to cleanJsonOutput are concatenations of at most this many tokens.
MaxTokens == 5
\* The longest chatHistory handed to chatWithCode.
MaxTurns == 12
\* The largest document handed to extractTextFromPdf.
MaxPages == 3
MaxItems == 2

CleanIdle ==
    /\ reply = <<>>
    /\ cleanPc = "idle"
    /\ cleaned = <<>>
    /\ recleaned = <<>>

CtxIdle ==
    /\ chatHistory = <<>>
    /\ outbound = {}

PdfIdle ==
    /\ pdfDoc = <<>>
    /\ pdfPc = "idle"
    /\ pdfI = 0
    /\ fullText = <<>>
    /\ visited = <<>>
    /\ pdfResult = [kind |-> "none", text |-> <<>>, message |-> ""]

(***************************************************************************)
(* cleanJsonOutput applied to a reply, and to its own output               *)
(***************************************************************************)
Tokens == {Fence, <<"j", "s", "o", "n">>, <<" ">>, <<"\n">>, <<"a">>, <<TICK>>}

RECURSIVE Flatten(_)
Flatten(ts) == IF ts = <<>> THEN <<>> ELSE Head(ts) \o Flatten(Tail(ts))

\* The replies of the model: every concatenation of up to MaxTokens tokens, and
\* the fenced replies with white space on both sides of the payload.
Replies ==
    { Flatten(ts) : ts \in UNION { [1..n -> Tokens] : n \in 0..MaxTokens } }
    \cup { JsonFence \o <<"\n", "a", " ", "a", "\n">> \o Fence,
           <<" ">> \o Fence \o <<"\n", "a", "\n">> \o Fence \o <<"\n">> }

CleanInit ==
    /\ reply \in Replies
    /\ cleanPc = "reply"
    /\ cleaned = <<>>
    /\ recleaned = <<>>
    /\ AppInit /\ now = Epoch /\ CtxIdle /\ PdfIdle

CleanReply ==
    /\ cleanPc = "reply"
    /\ cleaned' = cleanJsonOutput(reply)
    /\ cleanPc' = "cleaned"
    /\ UNCHANGED <<reply, recleaned, appVars, ctxVars, pdfVars>>

CleanAgain ==
    /\ cleanPc = "cleaned"
    /\ recleaned' = cleanJsonOutput(cleaned)
    /\ cleanPc' = "recleaned"
    /\ UNCHANGED <<reply, cleaned, appVars, ctxVars, pdfVars>>

CleanNext == CleanReply \/ CleanAgain

SpecClean == CleanInit /\ [][CleanNext]_vars

(***************************************************************************)
(* chatWithCode applied to a chatHistory                                   *)
(***************************************************************************)
TurnTexts == <<"t1", "t2", "t3", "t4", "t5", "t6", "t7", "t8", "t9", "t10",
               "t11", "t12", "t13", "t14", "t15", "t16">>

CtxInit ==
    /\ chatHistory = <<>>
    /\ outbound = {}
    /\ AppInit /\ now = Epoch /\ CleanIdle /\ PdfIdle

\* One more turn in the conversation that will be handed over.
CtxPush ==
    /\ Len(chatHistory) < MaxTurns
    /\ \E role \in {"user", "model"} :
         LET i == Len(chatHistory) + 1
         IN  chatHistory' = Append(chatHistory,
                 [ id |-> Digits(Epoch + i), role |-> role,
                   content |-> <<TurnTexts[i]>>, timestamp |-> Epoch + i ])
    /\ outbound' = {}
    /\ UNCHANGED <<appVars, cleanVars, pdfVars>>

\* chatWithCode(code, chatHistory, userMessage, documentation) builds its prompt.
CtxCall ==
    /\ outbound = {}
    /\ \E code \in {<<>>, CodeA}, doc \in {<<>>, <<"doc">>} :
         outbound' = {ChatPrompt(code, chatHistory, <<"q">>, doc)}
    /\ UNCHANGED <<chatHistory, appVars, cleanVars, pdfVars>>

CtxNext == CtxPush \/ CtxCall

SpecCtx == CtxInit /\ [][CtxNext]_vars

(***************************************************************************)
(* extractTextFromPdf, one await at a time                                 *)
(***************************************************************************)
ItemTexts == {"x", "y"}

PageSet == UNION { [1..k -> ItemTexts] : k \in 0..MaxItems }

Documents == UNION { [1..n -> PageSet] : n \in 0..MaxPages }

PdfInit ==
    /\ pdfDoc \in Documents
    /\ pdfPc = "load"
    /\ pdfI = 0
    /\ fullText = <<>>
    /\ visited = <<>>
    /\ pdfResult = [kind |-> "none", text |-> <<>>, message |-> ""]
    /\ AppInit /\ now = Epoch /\ CleanIdle /\ CtxIdle

\* The catch block: whatever was thrown, one fixed error leaves the function.
PdfThrow ==
    /\ pdfPc' = "thrown"
    /\ pdfResult' = [kind |-> "error", text |-> <<>>, message |-> PdfErrorMessage]

\* file.arrayBuffer() and getDocument(...).promise settle; on success the
\* accumulator and the loop counter are initialised.
PdfLoad ==
    /\ pdfPc = "load"
    /\ \E ok \in BOOLEAN :
         IF ok
         THEN /\ pdfPc' = "loop"
              /\ pdfI' = 1
              /\ fullText' = <<>>
              /\ UNCHANGED pdfResult
         ELSE /\ PdfThrow
              /\ UNCHANGED <<pdfI, fullText>>
    /\ UNCHANGED <<pdfDoc, visited, appVars, cleanVars, ctxVars>>

\* One iteration of the loop: getPage(i) and getTextContent() settle.
PdfPage ==
    /\ pdfPc = "loop"
    /\ pdfI <= Len(pdfDoc)
    /\ visited' = Append(visited, pdfI)
    /\ \E ok \in BOOLEAN :
         IF ok
         THEN /\ fullText' = fullText \o PageBlock(pdfI, pdfDoc[pdfI])
              /\ pdfI' = pdfI + 1
              /\ UNCHANGED <<pdfPc, pdfResult>>
         ELSE /\ PdfThrow
              /\ UNCHANGED <<pdfI, fullText>>
    /\ UNCHANGED <<pdfDoc, appVars, cleanVars, ctxVars>>

\* The loop condition fails: return fullText.
PdfReturn ==
    /\ pdfPc = "loop"
    /\ pdfI > Len(pdfDoc)
    /\ pdfPc' = "done"
    /\ pdfResult' = [kind |-> "text", text |-> fullText, message |-> ""]
    /\ UNCHANGED <<pdfDoc, pdfI, fullText, visited, appVars, cleanVars, ctxVars>>

PdfNext == PdfLoad \/ PdfPage \/ PdfReturn

SpecPdf == PdfInit /\ [][PdfNext]_vars

(***************************************************************************)
(* App.tsx: the event handlers                                             *)
(***************************************************************************)
\* What the user may type into the strategy box and the chat box.
PromptInputs == {<<" ">>, <<"a">>}
ChatInputs == {<<"q">>}

\* What the hosted model may answer to a generation and to a chat request.
GenResponses ==
    { Rejected(""), Resolved(<<>>), Resolved(<<"o", "o", "p", "s">>),
      Resolved(JsonFence \o <<"\n">> \o JsonGenA \o <<"\n">> \o Fence) }
ChatResponses ==
    { Rejected("network"), Resolved(JsonChatPlain), Resolved(JsonChatEmpty),
      Resolved(JsonChatNull), Resolved(Fence \o <<"\n">> \o JsonChatCode \o <<"\n">> \o Fence) }

RemoveAt(q, i) == SubSeq(q, 1, i - 1) \o SubSeq(q, i + 1, Len(q))

\* The mutant of MessageOr: err.message alone, no fallback.
MessageOnly(message, fallback) == message

\* err.message || fallback
MessageOr(message, fallback) == IF message # "" THEN message ELSE fallback

harnessVars == <<cleanVars, ctxVars, pdfVars>>

\* What a step leaves in event: the history index a restore was asked for;
\* every other step clears it.  The harness variables are not the App's.
Observe(op, arg) ==
    /\ event' = IF op = "restore" THEN [op |-> op, arg |-> arg]
                ELSE [op |-> "other", arg |-> 0]
    /\ UNCHANGED <<snapshots, harnessVars>>

\* The mutant of NewHistoryItem: the prompt and type of the latest render, not
\* those the call was made with.
NewHistoryItemStale(call, code, t) ==
    [ id |-> Digits(t), prompt |-> prompt, type |-> codeType,
      code |-> code, timestamp |-> t ]

\* newHistoryItem, from the prompt and codeType the handler closed over
NewHistoryItem(call, code, t) ==
    [ id |-> Digits(t), prompt |-> call.prompt, type |-> call.codeType,
      code |-> code, timestamp |-> t ]

\* The mutants of PushHistory: the new item goes to the end; the new item
\* replaces the list.
PushHistoryLast(item, prev) == Append(prev, item)
PushHistoryOnly(item, prev) == <<item>>

\* [newHistoryItem, ...prev]
PushHistory(item, prev) == <<item>> \o prev

\* The mutant of AppendMessage: the turn replaces the conversation.
AppendMessageOnly(prev, msg) == <<msg>>

\* [...prev, msg]
AppendMessage(prev, msg) == Append(prev, msg)

GeneratedMessage(type, expl, t) ==
    [ id |-> Digits(t), role |-> "model",
      content |-> <<"I've generated the ", type, " code based on your request. ">> \o expl,
      timestamp |-> t ]

RestoredMessage(item, t) ==
    [ id |-> Digits(t), role |-> "model",
      content |-> <<"Restored version: ">> \o item.prompt,
      timestamp |-> t ]

UserMessage(text, t) ==
    [ id |-> Digits(t), role |-> "user", content |-> text, timestamp |-> t ]

\* The mutant of HasUpdate: any string counts, the empty one too.
HasUpdateAnyString(result) == result.updated = "string"

\* !!result.updatedCode
HasUpdate(result) == result.updated = "string" /\ result.updatedCode # <<>>

AiMessage(result, t) ==
    [ id |-> Digits(t + 1), role |-> "model", content |-> result.reply,
      hasCodeUpdate |-> HasUpdate(result), timestamp |-> t ]

\* The mutant of ChatErrorMessage: the message carries the code-update flag.
ChatErrorMessageFlagged(t) ==
    [ id |-> Digits(t), role |-> "model", content |-> ChatErrorText,
      hasCodeUpdate |-> TRUE, timestamp |-> t ]

\* errorMsg
ChatErrorMessage(t) ==
    [ id |-> Digits(t), role |-> "model", content |-> ChatErrorText, timestamp |-> t ]

\* currentCode.startsWith('// Your MQL5 code') ? '' : currentCode
ContextCode(code) ==
    IF code # <<>> /\ code[1] = PlaceholderPrefix THEN <<>> ELSE code

\* The clock advances between handler steps.
Tick ==
    /\ now < Epoch + MaxTicks
    /\ now' = now + 1
    /\ Observe("idle", 0)
    /\ UNCHANGED <<prompt, codeType, isGenerating, currentCode, explanation, error,
                   activeTab, history, chatMessages, chatInput, isChatLoading,
                   uploadedFile, pdfContent, isParsingPdf,
                   genCalls, chatCalls, pdfCalls, nGenerated>>

SetPrompt ==
    /\ \E p \in PromptInputs : prompt' = p
    /\ Observe("idle", 0)
    /\ UNCHANGED <<codeType, isGenerating, currentCode, explanation, error,
                   activeTab, history, chatMessages, chatInput, isChatLoading,
                   uploadedFile, pdfContent, isParsingPdf,
                   now, genCalls, chatCalls, pdfCalls, nGenerated>>

SetCodeType ==
    /\ \E t \in CodeTypes : codeType' = t
    /\ Observe("idle", 0)
    /\ UNCHANGED <<prompt, isGenerating, currentCode, explanation, error,
                   activeTab, history, chatMessages, chatInput, isChatLoading,
                   uploadedFile, pdfContent, isParsingPdf,
                   now, genCalls, chatCalls, pdfCalls, nGenerated>>

\* The chat box is rendered in the chat tab and disabled while a chat request
\* is out or the conversation is empty.
SetChatInput ==
    /\ activeTab = "chat"
    /\ ~(isChatLoading \/ chatMessages = <<>>)
    /\ \E text \in ChatInputs : chatInput' = text
    /\ Observe("idle", 0)
    /\ UNCHANGED <<prompt, codeType, isGenerating, currentCode, explanation, error,
                   activeTab, history, chatMessages, isChatLoading,
                   uploadedFile, pdfContent, isParsingPdf,
                   now, genCalls, chatCalls, pdfCalls, nGenerated>>

SetActiveTab ==
    /\ \E tab \in {"chat", "history"} : activeTab' = tab
    /\ Observe("idle", 0)
    /\ UNCHANGED <<prompt, codeType, isGenerating, currentCode, explanation, error,
                   history, chatMessages, chatInput, isChatLoading,
                   uploadedFile, pdfContent, isParsingPdf,
                   now, genCalls, chatCalls, pdfCalls, nGenerated>>

\* handleGenerate up to its await.  The Generate button is disabled while a PDF
\* is parsed; its test of the prompt is the one the handler repeats.
handleGenerate ==
    /\ ~isParsingPdf
    /\ IF Trim(prompt) = <<>>
       THEN /\ Observe("generate:blank", 0)
            /\ UNCHANGED <<isGenerating, error, explanation, activeTab, currentCode,
                           genCalls>>
       ELSE /\ Len(genCalls) < MaxGenCalls
            /\ Len(history) + Len(genCalls) < MaxHistory
            /\ isGenerating' = TRUE
            /\ error' = Null
            /\ explanation' = <<>>
            /\ activeTab' = "chat"
            /\ currentCode' = Analyzing
            /\ genCalls' = Append(genCalls,
                   [ prompt |-> prompt, codeType |-> codeType,
                     request |-> GenPrompt(prompt, codeType, pdfContent),
                     history |-> IF snapshots THEN history ELSE <<>>,
                     chatMessages |-> IF snapshots THEN chatMessages ELSE <<>> ])
            /\ Observe("generate:sent", 0)
    /\ UNCHANGED <<prompt, codeType, history, chatMessages, chatInput, isChatLoading,
                   uploadedFile, pdfContent, isParsingPdf,
                   now, chatCalls, pdfCalls, nGenerated>>

\* handleGenerate from its await on: the request of call i settles.
GenerateSettles ==
    \E i \in 1..Len(genCalls), response \in GenResponses :
       LET call == genCalls[i]
           result == generateMql5(response)
       IN  /\ IF result.ok
              THEN /\ currentCode' = result.code
                   /\ explanation' = result.explanation
                   /\ history' = PushHistory(NewHistoryItem(call, result.code, now), history)
                   /\ chatMessages' = <<GeneratedMessage(call.codeType, result.explanation, now)>>
                   /\ nGenerated' = nGenerated + 1
                   /\ Observe("generate:ok", i)
                   /\ UNCHANGED error
              ELSE /\ error' = MessageOr(result.message, GenerateFallback)
                   /\ currentCode' = ErrorCode
                   /\ Observe("generate:failed", i)
                   /\ UNCHANGED <<explanation, history, chatMessages, nGenerated>>
           /\ isGenerating' = FALSE
           /\ genCalls' = RemoveAt(genCalls, i)
           /\ UNCHANGED <<prompt, codeType, activeTab, chatInput, isChatLoading,
                          uploadedFile, pdfContent, isParsingPdf,
                          now, chatCalls, pdfCalls>>

\* The mutant of ChatSubmitRejected: only a request in flight stops a
\* submission.
ChatSubmitRejectedWhenBusy == isChatLoading

\* if (!chatInput.trim() || isChatLoading) return;
ChatSubmitRejected == Trim(chatInput) = <<>> \/ isChatLoading

\* handleChatSubmit up to its await; the form is rendered in the chat tab.
handleChatSubmit ==
    /\ activeTab = "chat"
    /\ IF ChatSubmitRejected
       THEN /\ Observe("chat:ignored", 0)
            /\ UNCHANGED <<chatMessages, chatInput, isChatLoading, chatCalls>>
       ELSE /\ Len(chatMessages) + 2 <= MaxChat
            /\ chatMessages' = AppendMessage(chatMessages, UserMessage(chatInput, now))
            /\ chatInput' = <<>>
            /\ isChatLoading' = TRUE
            /\ chatCalls' = Append(chatCalls,
                   [ request |-> ChatPrompt(ContextCode(currentCode), chatMessages,
                                            chatInput, pdfContent) ])
            /\ Observe("chat:sent", 0)
    /\ UNCHANGED <<prompt, codeType, isGenerating, currentCode, explanation, error,
                   activeTab, history, uploadedFile, pdfContent, isParsingPdf,
                   now, genCalls, pdfCalls, nGenerated>>

\* The mutant of ChatSettlesWith: no finally block, isChatLoading stays.
ChatSettlesKeepsBusy(i, response) ==
       LET result == chatWithCode(response)
       IN  /\ IF result.ok
              THEN /\ chatMessages' = AppendMessage(chatMessages, AiMessage(result, now))
                   /\ currentCode' = IF HasUpdate(result) THEN result.updatedCode
                                     ELSE currentCode
                   /\ Observe("chat:ok", i)
              ELSE /\ chatMessages' = AppendMessage(chatMessages, ChatErrorMessage(now))
                   /\ Observe("chat:failed", i)
                   /\ UNCHANGED currentCode
           /\ chatCalls' = RemoveAt(chatCalls, i)
           /\ UNCHANGED <<prompt, codeType, isGenerating, explanation, error,
                          activeTab, history, chatInput, isChatLoading,
                          uploadedFile, pdfContent, isParsingPdf,
                          now, genCalls, pdfCalls, nGenerated>>

\* handleChatSubmit from its await on: the request of call i settles with
\* the given response.
ChatSettlesWith(i, response) ==
       LET result == chatWithCode(response)
       IN  /\ IF result.ok
              THEN /\ chatMessages' = AppendMessage(chatMessages, AiMessage(result, now))
                   /\ currentCode' = IF HasUpdate(result) THEN result.updatedCode
                                     ELSE currentCode
                   /\ Observe("chat:ok", i)
              ELSE /\ chatMessages' = AppendMessage(chatMessages, ChatErrorMessage(now))
                   /\ Observe("chat:failed", i)
                   /\ UNCHANGED currentCode
           /\ isChatLoading' = FALSE
           /\ chatCalls' = RemoveAt(chatCalls, i)
           /\ UNCHANGED <<prompt, codeType, isGenerating, explanation, error,
                          activeTab, history, chatInput,
                          uploadedFile, pdfContent, isParsingPdf,
                          now, genCalls, pdfCalls, nGenerated>>

ChatSettles ==
    \E i \in 1..Len(chatCalls), response \in ChatResponses :
       ChatSettlesWith(i, response)

\* The mutant of RestoreItem: it also clears the error banner.
RestoreItemClearsError(k) ==
    LET item == history[k]
    IN  /\ prompt' = item.prompt
        /\ codeType' = item.type
        /\ currentCode' = item.code
        /\ explanation' = RestoredNote
        /\ chatMessages' = <<RestoredMessage(item, now)>>
        /\ activeTab' = "chat"
        /\ error' = Null
        /\ Observe("restore", k)
        /\ UNCHANGED <<isGenerating, history, chatInput, isChatLoading,
                       uploadedFile, pdfContent, isParsingPdf,
                       now, genCalls, chatCalls, pdfCalls, nGenerated>>

\* restoreFromHistory(history[k])
RestoreItem(k) ==
    LET item == history[k]
    IN  /\ prompt' = item.prompt
        /\ codeType' = item.type
        /\ currentCode' = item.code
        /\ explanation' = RestoredNote
        /\ chatMessages' = <<RestoredMessage(item, now)>>
        /\ activeTab' = "chat"
        /\ Observe("restore", k)
        /\ UNCHANGED <<isGenerating, error, history, chatInput, isChatLoading,
                       uploadedFile, pdfContent, isParsingPdf,
                       now, genCalls, chatCalls, pdfCalls, nGenerated>>

\* A click on one of the items, which are buttons of the history tab.
restoreFromHistory ==
    /\ activeTab = "history"
    /\ \E k \in 1..Len(history) : RestoreItem(k)

\* processFile up to its await; the drop zone is rendered while no file is
\* uploaded and none is parsed.
processFileOf(file) ==
    /\ IF FileType(file) # "application/pdf"
       THEN /\ error' = NotPdfMessage
            /\ Observe("file:rejected", 0)
            /\ UNCHANGED <<uploadedFile, isParsingPdf, pdfCalls>>
       ELSE /\ uploadedFile' = file
            /\ isParsingPdf' = TRUE
            /\ error' = Null
            /\ pdfCalls' = Append(pdfCalls, [file |-> file])
            /\ Observe("file:sent", 0)
    /\ UNCHANGED <<prompt, codeType, isGenerating, currentCode, explanation,
                   activeTab, history, chatMessages, chatInput, isChatLoading,
                   pdfContent, now, genCalls, chatCalls, nGenerated>>

processFile ==
    /\ uploadedFile = Null /\ ~isParsingPdf
    /\ \E file \in Files : processFileOf(file)

\* processFile from its await on: extractTextFromPdf returns (ok) or throws.
ParseSettlesWith(i, ok) ==
       LET pages == FilePages(pdfCalls[i].file)
       IN  /\ IF ok
              THEN /\ pdfContent' = ExtractedText(pages, Len(pages))
                   /\ Observe("file:ok", i)
                   /\ UNCHANGED <<error, uploadedFile>>
              ELSE /\ error' = MessageOr(PdfErrorMessage, ParseFallback)
                   /\ uploadedFile' = Null
                   /\ pdfContent' = <<>>
                   /\ Observe("file:failed", i)
           /\ isParsingPdf' = FALSE
           /\ pdfCalls' = RemoveAt(pdfCalls, i)
           /\ UNCHANGED <<prompt, codeType, isGenerating, currentCode, explanation,
                          activeTab, history, chatMessages, chatInput, isChatLoading,
                          now, genCalls, chatCalls, nGenerated>>

ParseSettles ==
    \E i \in 1..Len(pdfCalls), ok \in BOOLEAN : ParseSettlesWith(i, ok)

\* The mutant of removeFile: the extracted text is kept.
removeFileKeepsText ==
    /\ uploadedFile # Null /\ ~isParsingPdf
    /\ uploadedFile' = Null
    /\ Observe("file:removed", 0)
    /\ UNCHANGED <<prompt, codeType, isGenerating, currentCode, explanation, error,
                   activeTab, history, chatMessages, chatInput, isChatLoading,
                   pdfContent, isParsingPdf, now, genCalls, chatCalls, pdfCalls,
                   nGenerated>>

\* removeFile; its button is rendered while a file is uploaded and not parsed.
removeFile ==
    /\ uploadedFile # Null /\ ~isParsingPdf
    /\ uploadedFile' = Null
    /\ pdfContent' = <<>>
    /\ Observe("file:removed", 0)
    /\ UNCHANGED <<prompt, codeType, isGenerating, currentCode, explanation, error,
                   activeTab, history, chatMessages, chatInput, isChatLoading,
                   isParsingPdf, now, genCalls, chatCalls, pdfCalls, nGenerated>>

Init == AppInit /\ now = Epoch /\ CleanIdle /\ CtxIdle /\ PdfIdle

\* The same App, every handleGenerate invocation keeping the history and the
\* conversation it was called with.
InitSnapshots ==
    /\ snapshots = TRUE
    /\ now = Epoch /\ CleanIdle /\ CtxIdle /\ PdfIdle
    /\ AppState

Next ==
    \/ Tick
    \/ SetPrompt
    \/ SetCodeType
    \/ SetChatInput
    \/ SetActiveTab
    \/ handleGenerate
    \/ GenerateSettles
    \/ handleChatSubmit
    \/ ChatSettles
    \/ restoreFromHistory
    \/ processFile
    \/ ParseSettles
    \/ removeFile

Spec == Init /\ [][Next]_vars

\* The App, every external call eventually returning or failing: a promise
\* that is pending is eventually settled and its continuation run.
SpecLive ==
    /\ Init /\ [][Next]_vars
    /\ WF_vars(GenerateSettles)
    /\ WF_vars(ChatSettles)
    /\ WF_vars(ParseSettles)

SpecSnapshots == InitSnapshots /\ [][Next]_vars

(***************************************************************************)
(* Claims about cleanJsonOutput (checked under SpecClean)                  *)
(***************************************************************************)
HasFence(p) == \E i \in 1..(Len(p) - 2) : SubSeq(p, i, i + 2) = Fence

AllSpace(s) == \A i \in 1..Len(s) : IsSpace(s[i])

\* r is  space* open space* r[i..j] space* fence space*
FencedAs(r, open, i, j) ==
    LET pre == TrimStart(SubSeq(r, 1, i - 1))
        suf == TrimEnd(SubSeq(r, j + 1, Len(r)))
    IN  /\ StartsWith(pre, open)
        /\ AllSpace(DropFirst(pre, Len(open)))
        /\ EndsWith(suf, Fence)
        /\ AllSpace(DropLast(suf, Len(Fence)))

\* C9, as stated: every fence-free payload wrapped in a json fence or a bare
\* fence comes back exactly; a reply not starting with a fence comes back
\* trimmed; cleaning the cleaned text changes nothing.
C9_AsStated ==
    /\ cleanPc \in {"cleaned", "recleaned"} =>
         /\ \A open \in {JsonFence, Fence} :
              \A i \in 1..(Len(reply) + 1) : \A j \in (i - 1)..Len(reply) :
                 LET p == SubSeq(reply, i, j)
                 IN  (FencedAs(reply, open, i, j) /\ ~HasFence(p)) => cleaned = p
         /\ ~StartsWith(Trim(reply), Fence) => cleaned = Trim(reply)
    /\ cleanPc = "recleaned" => recleaned = cleaned

\* C9, amended: a fence-free payload with no white space at either end, wrapped
\* in a json fence, or in a bare fence that "json" does not follow directly,
\* comes back exactly; a reply that once trimmed does not start with a fence
\* comes back trimmed; cleaning the cleaned text changes nothing when the
\* cleaned text does not itself start with a fence.
C9_FencesStripped ==
    /\ cleanPc \in {"cleaned", "recleaned"} =>
         /\ \A open \in {JsonFence, Fence} :
              \A i \in 1..(Len(reply) + 1) : \A j \in (i - 1)..Len(reply) :
                 LET p == SubSeq(reply, i, j)
                 IN  ( /\ FencedAs(reply, open, i, j)
                       /\ ~HasFence(p)
                       /\ p = Trim(p)
                       /\ (open = Fence => ~StartsWith(Trim(reply), JsonFence)) )
                     => cleaned = p
         /\ ~StartsWith(Trim(reply), Fence) => cleaned = Trim(reply)
    /\ (cleanPc = "recleaned" /\ ~StartsWith(cleaned, Fence)) => recleaned = cleaned

\* A json-fenced reply with line breaks around a two-word payload has been
\* cleaned, and cleaned again.
C9_Witness ==
    /\ cleanPc = "recleaned"
    /\ reply = JsonFence \o <<"\n", "a", " ", "a", "\n">> \o Fence
    /\ cleaned = <<"a", " ", "a">>
    /\ recleaned = cleaned

(***************************************************************************)
(* Claims about chatWithCode's conversation context (checked under SpecCtx)*)
(***************************************************************************)
C1_Line(msg) ==
    <<IF msg.role = "user" THEN "User" ELSE "Assistant", ": ">> \o msg.content

Occurs(atom, text) == \E k \in 1..Len(text) : text[k] = atom

\* C1: the conversation context of the request holds exactly the last
\* min(n, 10) turns of chatHistory, in order, each as "User: ..." or
\* "Assistant: ...", and the text of no older turn.
C1_ContextIsLastTen ==
    \A req \in outbound :
       LET n == Len(chatHistory)
           m == IF n < 10 THEN n ELSE 10
       IN  /\ req.conversation =
                Join([i \in 1..m |-> C1_Line(chatHistory[n - m + i])], "\n")
           /\ \A k \in 1..(n - m) :
                ~Occurs(chatHistory[k].content[1], req.conversation)

\* A request has been built from a conversation of more than ten turns in which
\* both roles occur among the turns kept and among those dropped.
C1_Witness ==
    /\ outbound # {}
    /\ Len(chatHistory) = 12
    /\ chatHistory[1].role = "user" /\ chatHistory[2].role = "model"
    /\ chatHistory[11].role = "user" /\ chatHistory[12].role = "model"

(***************************************************************************)
(* Claims about extractTextFromPdf (checked under SpecPdf)                 *)
(***************************************************************************)
RECURSIVE C10_SpaceJoined(_)
C10_SpaceJoined(items) ==
    IF items = <<>> THEN <<>>
    ELSE IF Len(items) = 1 THEN items
    ELSE <<items[1], " ">> \o C10_SpaceJoined(Tail(items))

RECURSIVE C10_Blocks(_)
\* The blocks of pages 1..n of pdfDoc, in page order.
C10_Blocks(n) ==
    IF n = 0 THEN <<>>
    ELSE C10_Blocks(n - 1)
         \o <<"\n--- Page ">> \o Digits(n) \o <<" ---\n">>
         \o C10_SpaceJoined(pdfDoc[n])

\* C10: pages 1..N are requested once each in increasing order; the text
\* returned is the page blocks in page order (empty for N = 0); a failure
\* returns no text and throws the one fixed error.
C10_ExtractsPagesInOrder ==
    /\ visited = [k \in 1..Len(visited) |-> k]
    /\ Len(visited) <= Len(pdfDoc)
    /\ pdfPc = "done" =>
         /\ Len(visited) = Len(pdfDoc)
         /\ pdfResult = [kind |-> "text", text |-> C10_Blocks(Len(pdfDoc)), message |-> ""]
         /\ (Len(pdfDoc) = 0 => pdfResult.text = <<>>)
    /\ pdfPc = "thrown" =>
         pdfResult =
           [ kind |-> "error", text |-> <<>>,
             message |-> "Failed to extract text from PDF. The file might be corrupted or encrypted." ]
    /\ pdfPc \in {"load", "loop"} => pdfResult.kind = "none"

\* A document of three pages, one of them with two text items, has been
\* extracted to the end.
C10_Witness ==
    /\ pdfPc = "done"
    /\ Len(pdfDoc) = 3
    /\ pdfDoc[2] = <<"x", "y">>
    /\ pdfResult.kind = "text"
    /\ Len(pdfResult.text) = 12

(***************************************************************************)
(* Claims about the App (checked under Spec; C8 under SpecSnapshots)       *)
(***************************************************************************)
IsPrefix(a, b) == Len(a) <= Len(b) /\ SubSeq(b, 1, Len(a)) = a

\* In this step the request of handleGenerate invocation i settled.
GenSettled(i) == i \in 1..Len(genCalls) /\ genCalls' = RemoveAt(genCalls, i)
\* In this step a generateMql5 request succeeded / some request failed.
GenSucceeded == nGenerated' = nGenerated + 1
GenFailed == Len(genCalls') < Len(genCalls) /\ nGenerated' = nGenerated

Blank(text) == \A k \in 1..Len(text) : text[k] \in WhiteSpace

\* C2: a step adds to history exactly when a generateMql5 request succeeds,
\* and then it adds one item at the front, holding the prompt and the type of
\* the invocation that made the request and the code returned; an invocation
\* with a blank prompt makes no request; so history is as long as the number
\* of requests that have succeeded.
C2_OneItemPerSuccess ==
    [][ /\ Len(history') = nGenerated'
        /\ GenSucceeded =>
             \E i \in 1..Len(genCalls) :
                /\ GenSettled(i)
                /\ Len(history') = Len(history) + 1
                /\ Tail(history') = history
                /\ Head(history').prompt = genCalls[i].prompt
                /\ Head(history').type = genCalls[i].codeType
                /\ Head(history').code = currentCode'
                /\ Head(history').code \notin {Placeholder, Analyzing, ErrorCode}
        /\ ~GenSucceeded => history' = history
        /\ \A i \in 1..Len(genCalls') : ~Blank(genCalls'[i].prompt)
        /\ \A k \in 1..Len(history') : ~Blank(history'[k].prompt)
      ]_vars

\* Two generations have succeeded, and the newest item holds a prompt and a
\* type that are no longer those of the form.
C2_Witness ==
    /\ Len(history) = 2
    /\ nGenerated = 2
    /\ history[1].prompt # prompt
    /\ history[1].type # codeType
    /\ history[1].type # history[2].type

\* C3: every item of history stays, unchanged and in the same order relative
\* to the others; history changes only in a step in which a generation
\* succeeds, which adds one item.
C3_HistoryIsKept ==
    [][ /\ Len(history') >= Len(history)
        /\ \A k \in 1..Len(history) :
              history'[k + Len(history') - Len(history)] = history[k]
        /\ history' # history =>
              /\ Len(history') = Len(history) + 1
              /\ Len(genCalls') = Len(genCalls) - 1
              /\ currentCode' = Head(history').code
              /\ error' = error
      ]_vars

\* With two items in history and a PDF loaded, an item has just been restored.
C3_Witness ==
    /\ Len(history) = 2
    /\ event.op = "restore"
    /\ uploadedFile # Null /\ pdfContent # <<>>
    /\ history[1].timestamp > history[2].timestamp

\* C4, as stated: after every step the previous conversation is a prefix of
\* the new one.
C4_AsStated == [][IsPrefix(chatMessages, chatMessages')]_vars

\* C4, amended: a chat submission, a chat reply and a chat failure append one
\* turn to the conversation; a successful generation and a restore replace the
\* conversation by a single model message; no other step changes it.
C4_AppendOrRestart ==
    [][ /\ Len(chatCalls') # Len(chatCalls) =>
              /\ IsPrefix(chatMessages, chatMessages')
              /\ Len(chatMessages') = Len(chatMessages) + 1
        /\ (GenSucceeded \/ event'.op = "restore") =>
              /\ Len(chatMessages') = 1
              /\ chatMessages'[1].role = "model"
        /\ ~(Len(chatCalls') # Len(chatCalls) \/ GenSucceeded \/ event'.op = "restore") =>
              chatMessages' = chatMessages
      ]_vars

\* A generation, a question and its answer: three turns, none in flight.
C4_Witness ==
    /\ Len(chatMessages) = 3
    /\ chatMessages[2].role = "user"
    /\ chatMessages[3].role = "model"
    /\ chatCalls = <<>>
    /\ Len(history) = 2

\* C5: no two turns of the conversation share an id, and no two items of
\* history share an id.
C5_IdsAreUnique ==
    /\ \A i, j \in 1..Len(chatMessages) :
          i # j => chatMessages[i].id # chatMessages[j].id
    /\ \A i, j \in 1..Len(history) :
          i # j => history[i].id # history[j].id

\* C6: history is ordered newest first and the conversation oldest first, by
\* timestamp.
C6_OrderedByTimestamp ==
    /\ \A i, j \in 1..Len(history) :
          i < j => history[i].timestamp >= history[j].timestamp
    /\ \A i, j \in 1..Len(chatMessages) :
          i < j => chatMessages[i].timestamp <= chatMessages[j].timestamp

\* Two generations completed at different clock readings, and a question was
\* asked and answered after the second.
C6_Witness ==
    /\ Len(history) = 2
    /\ history[1].timestamp > history[2].timestamp
    /\ Len(chatMessages) = 3
    /\ chatMessages[3].role = "model"
    /\ chatCalls = <<>>

\* C7: every item of history can be restored in the history tab; restoring
\* item k sets prompt, codeType and currentCode from it, makes the conversation
\* the one message "Restored version: <prompt>", shows the chat tab, and leaves
\* history, the error banner and the uploaded PDF and its text as they were.
C7_RestoreSetsAndKeeps ==
    [][ /\ activeTab = "history" =>
              \A k \in 1..Len(history) : ENABLED RestoreItem(k)
        /\ event'.op = "restore" =>
              LET item == history[event'.arg]
              IN  /\ event'.arg \in 1..Len(history)
                  /\ prompt' = item.prompt
                  /\ codeType' = item.type
                  /\ currentCode' = item.code
                  /\ Len(chatMessages') = 1
                  /\ chatMessages'[1].role = "model"
                  /\ chatMessages'[1].content = <<"Restored version: ">> \o item.prompt
                  /\ activeTab' = "chat"
                  /\ history' = history
                  /\ error' = error
                  /\ uploadedFile' = uploadedFile
                  /\ pdfContent' = pdfContent
      ]_vars

\* An item has just been restored while an error is shown and a PDF is
\* loaded.
C7_Witness ==
    /\ event.op = "restore"
    /\ currentCode = history[event.arg].code
    /\ activeTab = "chat"
    /\ error # Null
    /\ uploadedFile # Null
    /\ pdfContent # <<>>

\* C8, as stated: when a generation request fails, error is a message,
\* currentCode is the error text, isGenerating is false, and history and the
\* conversation are those of the moment handleGenerate was called.
C8_AsStated ==
    [][ GenFailed =>
          \A i \in 1..Len(genCalls) :
             GenSettled(i) =>
                /\ error' \notin {Null, ""}
                /\ currentCode' = <<"// Error generating code.">>
                /\ isGenerating' = FALSE
                /\ history' = genCalls[i].history
                /\ chatMessages' = genCalls[i].chatMessages
      ]_vars

\* C8, amended: when a generation request fails, error is a message,
\* currentCode is the error text, isGenerating is false, and the step leaves
\* history and the conversation as they were just before it.
C8_FailureAddsNothing ==
    [][ GenFailed =>
          /\ \E i \in 1..Len(genCalls) : GenSettled(i)
          /\ error' \notin {Null, ""}
          /\ currentCode' = <<"// Error generating code.">>
          /\ isGenerating' = FALSE
          /\ history' = history
          /\ chatMessages' = chatMessages
      ]_vars

\* After a generation and a chat exchange, a second generation request came
\* back empty.
C8_Witness ==
    /\ error = "No response generated"
    /\ currentCode = ErrorCode
    /\ ~isGenerating /\ genCalls = <<>>
    /\ Len(history) = 1
    /\ Len(chatMessages) = 3

ChatFailedWith(i, response) ==
    /\ i \in 1..Len(chatCalls)
    /\ Len(chatCalls') < Len(chatCalls)
    /\ ~chatWithCode(response).ok
    /\ ChatSettlesWith(i, response)

LastTurn(turns) == turns[Len(turns)]

\* C12, as stated: when a chat request fails, the conversation still ends with
\* the user's message, one model message with the fixed text and no
\* code-update flag is appended after it, and currentCode, history and error
\* are unchanged.
C12_AsStated ==
    [][ \A i \in 1..Len(chatCalls), response \in ChatResponses :
          ChatFailedWith(i, response) =>
             /\ chatMessages # <<>>
             /\ LastTurn(chatMessages).role = "user"
             /\ LastTurn(chatMessages).content = chatCalls[i].request.request
             /\ Len(chatMessages') = Len(chatMessages) + 1
             /\ SubSeq(chatMessages', 1, Len(chatMessages)) = chatMessages
             /\ LastTurn(chatMessages').role = "model"
             /\ LastTurn(chatMessages').content =
                   <<"I encountered an error while processing your request. Please try again.">>
             /\ "hasCodeUpdate" \notin DOMAIN LastTurn(chatMessages')
             /\ UNCHANGED <<currentCode, history, error>>
      ]_vars

\* C12, amended: when a chat request fails, one model message with the fixed
\* text and no code-update flag is appended to the conversation as it is then,
\* no turn is removed, and currentCode, history and error are unchanged; the
\* user's message is still the turn before it unless a generation or a restore
\* replaced the conversation while the request was out.
C12_FailureAppendsNotice ==
    [][ \A i \in 1..Len(chatCalls), response \in ChatResponses :
          ChatFailedWith(i, response) =>
             /\ Len(chatMessages') = Len(chatMessages) + 1
             /\ SubSeq(chatMessages', 1, Len(chatMessages)) = chatMessages
             /\ LastTurn(chatMessages').role = "model"
             /\ LastTurn(chatMessages').content =
                   <<"I encountered an error while processing your request. Please try again.">>
             /\ "hasCodeUpdate" \notin DOMAIN LastTurn(chatMessages')
             /\ UNCHANGED <<currentCode, history, error>>
             /\ ~isChatLoading'
             /\ \/ /\ LastTurn(chatMessages).role = "user"
                   /\ LastTurn(chatMessages).content = chatCalls[i].request.request
                \/ /\ Len(chatMessages) = 1
                   /\ LastTurn(chatMessages).role = "model"
      ]_vars

\* A question failed while the error banner of a failed generation is shown:
\* the notice follows the user's turn, and the banner and the code stay.
C12_Witness ==
    /\ Len(chatMessages) = 3
    /\ chatMessages[2].role = "user"
    /\ chatMessages[3].content = ChatErrorText
    /\ ~isChatLoading /\ chatCalls = <<>>
    /\ error # Null
    /\ currentCode = ErrorCode

\* C13: if every external call eventually returns or fails, each of
\* isGenerating, isChatLoading and isParsingPdf, whenever true, is false at some
\* later state (for a state predicate P, P ~> ~P says the same as []<>~P), a
\* call that settles clears its flag whether it returned or failed, and every
\* chat request that is out is eventually settled, by a step that appends
\* exactly one model message to the conversation.
C13_BusyFlagsClear ==
    /\ []<>~isGenerating
    /\ []<>(~isChatLoading /\ chatCalls = <<>>)
    /\ []<>~isParsingPdf
    /\ [][ /\ Len(genCalls') < Len(genCalls) => ~isGenerating'
           /\ Len(pdfCalls') < Len(pdfCalls) => ~isParsingPdf'
           /\ Len(chatCalls') < Len(chatCalls) =>
                /\ ~isChatLoading'
                /\ Len(chatCalls') = Len(chatCalls) - 1
                /\ Len(chatMessages') = Len(chatMessages) + 1
                /\ SubSeq(chatMessages', 1, Len(chatMessages)) = chatMessages
                /\ LastTurn(chatMessages').role = "model"
           /\ Len(chatCalls') >= Len(chatCalls) =>
                \/ chatMessages' = chatMessages
                \/ Len(chatCalls') > Len(chatCalls)
                \/ Len(chatMessages') = 1
         ]_vars

\* The three flags are clear again after a generation that failed, a chat
\* request that failed and a PDF that was parsed.
C13_Witness ==
    /\ ~isGenerating /\ ~isChatLoading /\ ~isParsingPdf
    /\ genCalls = <<>> /\ chatCalls = <<>> /\ pdfCalls = <<>>
    /\ currentCode = ErrorCode
    /\ chatMessages # <<>> /\ LastTurn(chatMessages).content = ChatErrorText
    /\ uploadedFile # Null /\ pdfContent # <<>>

\* C14: a chat request carries the displayed code when currentCode is code the
\* model produced or a restored version, and the empty string when currentCode
\* is the initial placeholder, the progress text of a generation in flight or
\* the text shown after a failed generation.
C14_NoCodeNoContext ==
    [][ Len(chatCalls') > Len(chatCalls) =>
          LET sent == chatCalls'[Len(chatCalls')].request.code
          IN  IF currentCode \in
                   { <<"// Your MQL5 code", " will appear here...">>,
                     <<"// Analyzing requirements...", "\n// Reading documentation context...",
                       "\n// Designing trading logic...", "\n// Generating MQL5 structures...">>,
                     <<"// Error generating code.">> }
              THEN sent = <<>>
              ELSE sent = currentCode
      ]_vars

\* C15: when a chat request returns a reply, the model message appended has
\* hasCodeUpdate true exactly if the reply carries an updatedCode that is a
\* non-empty string, and then currentCode becomes that updatedCode; with
\* updatedCode absent, null or empty the flag is false and currentCode stays.
\* The conversation a request carries is that from before the user's turn was
\* appended; the turn's text travels as the request.
C15_FlagMeansUpdate ==
    [][ /\ \A i \in 1..Len(chatCalls), response \in ChatResponses :
             (/\ Len(chatCalls') < Len(chatCalls)
              /\ chatWithCode(response).ok
              /\ ChatSettlesWith(i, response)) =>
                LET answer == chatWithCode(response)
                    turn == LastTurn(chatMessages')
                    carries == answer.updated = "string" /\ answer.updatedCode # <<>>
                IN  /\ Len(chatMessages') = Len(chatMessages) + 1
                    /\ turn.role = "model"
                    /\ turn.content = answer.reply
                    /\ turn.hasCodeUpdate = carries
                    /\ currentCode' = IF carries THEN answer.updatedCode ELSE currentCode
                    /\ UNCHANGED <<history, error>>
        /\ Len(chatCalls') > Len(chatCalls) =>
             LET sent == chatCalls'[Len(chatCalls')].request
             IN  /\ sent.request = chatInput
                 /\ sent.request = LastTurn(chatMessages').content
                 /\ sent.conversation = conversationContext(chatMessages)
                 /\ sent.conversation # conversationContext(chatMessages')
      ]_vars

\* A reply that carried new code has been handled: its turn is flagged, the
\* displayed code is the reply's and no longer the generated one.
C15_Witness ==
    /\ Len(chatMessages) = 3
    /\ chatMessages[2].role = "user"
    /\ "hasCodeUpdate" \in DOMAIN chatMessages[3]
    /\ chatMessages[3].hasCodeUpdate
    /\ currentCode = CodeC
    /\ history # <<>> /\ history[1].code = CodeA
    /\ chatCalls = <<>>

\* C16: processFile on a file that is not a PDF sets the error message and
\* nothing else, and starts no extraction; an extraction that fails sets error
\* and resets uploadedFile to null and pdfContent to the empty string;
\* removeFile resets both.  Whenever no parse is in progress, pdfContent is
\* non-empty only if a file is uploaded, and a request carries documentation
\* only while a file is uploaded.
C16_PdfStateConsistent ==
    /\ [](~isParsingPdf /\ pdfContent # <<>> => uploadedFile # Null)
    /\ [][ /\ \A file \in Files :
                (FileType(file) # "application/pdf" /\ processFileOf(file)) =>
                   /\ error' = "Please upload a valid PDF file."
                   /\ UNCHANGED <<uploadedFile, pdfContent, isParsingPdf, pdfCalls>>
           /\ \A i \in 1..Len(pdfCalls) :
                ParseSettlesWith(i, FALSE) =>
                   /\ error' \notin {Null, ""}
                   /\ uploadedFile' = Null
                   /\ pdfContent' = <<>>
                   /\ ~isParsingPdf'
           /\ removeFile => (uploadedFile' = Null /\ pdfContent' = <<>>)
           /\ Len(chatCalls') > Len(chatCalls) =>
                LET sent == chatCalls'[Len(chatCalls')].request
                IN  /\ sent.documentation = pdfContent
                    /\ sent.documentation # <<>> => uploadedFile # Null
           /\ Len(genCalls') > Len(genCalls) =>
                LET sent == genCalls'[Len(genCalls')].request
                IN  /\ sent.documentation = pdfContent
                    /\ sent.documentation # <<>> => uploadedFile # Null
         ]_vars

\* A generation request went out with the text of a PDF; the PDF was then
\* removed, and the chat request sent after that carries no documentation.
C16_Witness ==
    /\ genCalls # <<>> /\ genCalls[1].request.documentation # <<>>
    /\ uploadedFile = Null /\ pdfContent = <<>> /\ ~isParsingPdf
    /\ chatCalls # <<>> /\ chatCalls[1].request.documentation = <<>>

====
